---- MODULE Spec2Model ----
(***************************************************************************)
(* sonar-export.py: export of SonarQube issues, one project at a time.     *)
(* The model follows export_single_project statement by statement: the     *)
(* planning of the date range, the 30-day window loop, the page loop with   *)
(* the session's urllib3 Retry, the chunked CSV writing and the state file  *)
(* of incremental mode.                                                     *)
(*                                                                          *)
(* Dates are Python datetime values at midnight, held as proleptic          *)
(* Gregorian ordinals (datetime.toordinal); date strings 'YYYY-MM-DD' are   *)
(* triples <<y, m, d>> that strptime parses and strftime produces.          *)
(* A page of issues is held as one block [w, p, n, flat]: the n issues that *)
(* page p of window w returned (the code only ever moves whole pages).      *)
(* The disk is taken as reliable and, inside an export, issue records as   *)
(* objects of the shape the server documents.                               *)
(*                                                                          *)
(* Spec is one call of export_single_project; SpecMulti is                  *)
(* export_multiple_projects over a list of keys, each export made of the    *)
(* same steps; SpecStore calls save_export_info and get_last_export_info    *)
(* on their own, SpecFlatten calls flatten_issue on raw records whose       *)
(* optional fields have any JSON shape; SpecRuns calls                      *)
(* export_single_project again and again on one disk; SpecMain runs the     *)
(* module-level single-project path after export_single_project, on the     *)
(* same inputs.                                                             *)
(***************************************************************************)
EXTENDS Integers, Sequences, FiniteSets, TLC

\* ---------------------------------------------------------------- bounds
\* Longest effective date range (in days) of the runs explored.
MaxRangeDays == 60
\* Most pages the server serves for one window.
MaxPages == 6
\* Most calls of the state file functions made one after the other.
MaxCalls == 3

\* ------------------------------------------------------ program constants
page_size == 500
chunk_size == 5000
RETRY_TOTAL == 3
DELTA_DAYS == 30

None == <<>>

\* ------------------------------------------------------------- datetime
IsLeap(y) == (y % 4 = 0 /\ y % 100 # 0) \/ y % 400 = 0

DaysInMonth(y, m) ==
  IF m \in {4, 6, 9, 11} THEN 30
  ELSE IF m = 2 THEN (IF IsLeap(y) THEN 29 ELSE 28)
  ELSE 31

DaysBeforeYear(y) ==
  (y - 1) * 365 + (y - 1) \div 4 - (y - 1) \div 100 + (y - 1) \div 400

\* days of the year before the first day of month m
DaysBeforeMonth(y, m) ==
  <<0, 31, 59, 90, 120, 151, 181, 212, 243, 273, 304, 334>>[m]
  + (IF m > 2 /\ IsLeap(y) THEN 1 ELSE 0)

\* datetime(y, m, d).toordinal()
toordinal(y, m, d) == DaysBeforeYear(y) + DaysBeforeMonth(y, m) + d

\* datetime.strptime(s, '%Y-%m-%d') raises ValueError unless s is a real date.
strptime_ok(s) ==
  /\ Len(s) = 3
  /\ s[1] \in 1..9999
  /\ s[2] \in 1..12
  /\ s[3] \in 1..DaysInMonth(s[1], s[2])

strptime(s) == toordinal(s[1], s[2], s[3])

\* d.strftime('%Y-%m-%d') of the datetime with ordinal n
strftime(n) ==
  LET y == CHOOSE yy \in ((n - 1) \div 366 + 1)..((n - 1) \div 365 + 1) :
             DaysBeforeYear(yy) < n /\ n <= DaysBeforeYear(yy + 1)
      r == n - DaysBeforeYear(y)
      m == CHOOSE mm \in 1..12 :
             DaysBeforeMonth(y, mm) < r /\ r <= DaysBeforeMonth(y, mm) + DaysInMonth(y, mm)
  IN <<y, m, r - DaysBeforeMonth(y, m)>>

\* ------------------------------------------------------------ file names
PROJECT_KEY == <<"o", "r", "g", ":", "a", "/", "b">>

\* faulty variant: only ':' is replaced
sanitize_colons_only(key) ==
  [i \in 1..Len(key) |-> IF key[i] = ":" THEN "_" ELSE key[i]]

\* project_key.replace(':', '_').replace('/', '_')
sanitize(key) ==
  [i \in 1..Len(key) |-> IF key[i] \in {":", "/"} THEN "_" ELSE key[i]]

\* faulty variant: one state file for all projects
state_file_name_shared(key) == <<".last_export_", ".json">>

state_file_name(key) == <<".last_export_">> \o sanitize(key) \o <<".json">>

csv_file_name(key) == sanitize(key) \o <<"_issues.csv">>

\* str.endswith('.csv') of a file name held as a sequence of pieces
endswith_csv(name) == name[Len(name)] \in {"_issues.csv", ".csv"}

\* lines 395-402 (base_args.output is not given in the runs explored)
csv_file_of(key, out) ==
  IF out # None
  THEN IF endswith_csv(out) THEN out ELSE out \o <<".csv">>
  ELSE csv_file_name(key)

\* ------------------------------------------------------------------ state
VARIABLES
  args,                \* base_args: start_date, end_date, incremental
  config,              \* the [export] section of the config file, if any
  state_files,         \* .last_export_<key>.json files: name -> content
  files,               \* CSV files: name -> content
  initial,             \* the disk as the run found it (history)
  pc,                  \* position in export_single_project
  start_date, end_date, current_start_date, current_end_date,
  params,              \* request parameters createdAfter, createdBefore, p
  all_issues,          \* the in-memory buffer
  total_issues_count,
  write_mode,
  csv_file,
  retry_total,         \* what is left of the session's Retry(total=3)
  attempts,            \* HTTP attempts made for the current session.get
  response,            \* what session.get returned or raised
  requests,            \* every session.get issued, in order (history)
  windows,             \* every window the loop entered (history)
  replies,             \* how each finished session.get ended: ok, n (history)
  result,              \* the returned dict
  project,             \* export_single_project's arguments project_key
  output_file,         \* and output_file
  server,              \* per project: "up", or "not_found" (every request 404)
  project_keys,        \* export_multiple_projects' argument
  project_index,       \* the loop's i, 0 outside export_multiple_projects
  results,             \* the dict project key -> result, in insertion order
  summary,             \* successful, failed, total_issues of the report
  exports,             \* what each entry's export returned and left (history)
  store_log,           \* calls of save_export_info / get_last_export_info made
                       \* one by one, with what they addressed and returned
  raw_issue,           \* a raw record handed to flatten_issue on its own
  flat_row,            \* what flatten_issue made of it
  run_args,            \* the arguments of the runs still to come, when
                       \* export_single_project is run again and again
  runs,                \* what each finished run covered and saved (history)
  function_run         \* what export_single_project did, kept while the
                       \* module-level path runs on the same inputs (history)

\* the variables of the other ways the code is run
script == <<run_args, runs, function_run>>

\* the variables of the functions called on their own
units == <<store_log, raw_issue, flat_row, script>>

\* what the steps of export_single_project leave alone
outer == <<project, output_file, server, project_keys, project_index,
           results, summary, exports, units>>

vars == <<args, config, state_files, files, initial, pc, start_date, end_date,
          current_start_date, current_end_date, params, all_issues,
          total_issues_count, write_mode, csv_file, retry_total, attempts,
          response, requests, windows, replies, result, outer>>

\* ----------------------------------------------------------------- inputs
DEFAULT_START == <<2000, 1, 1>>
\* datetime.now().strftime('%Y-%m-%d'), the end date when none is given
TODAY == <<2025, 3, 11>>

StartArgs == {None, <<2025, 1, 1>>, <<2025, 3, 1>>, <<2025, 13, 1>>}
EndArgs == {None, <<2025, 1, 1>>, <<2025, 2, 15>>, <<2000, 1, 16>>}
Configs == {None, <<[start_date |-> <<2025, 1, 31>>]>>}
StoredStates ==
  {None,
   <<[project_key |-> PROJECT_KEY, last_export_date |-> <<2025, 3, 1>>,
      issue_count |-> 700]>>}
\* a CSV file left by an earlier run: header and 7 rows
StaleFile == <<[header |-> 1, rows |-> <<[w |-> 0, p |-> 1, n |-> 7, flat |-> TRUE]>>]>>

RECURSIVE count(_)
\* len() of a list of issues held as page blocks
count(blocks) ==
  IF blocks = <<>> THEN 0 ELSE Head(blocks).n + count(Tail(blocks))

\* ------------------------------------------------------------ state file
\* faulty variant: a missing state file is taken as an export made today
get_last_export_info_today(project_key) ==
  LET state_file == state_file_name(project_key)
  IN IF state_files[state_file] # None THEN state_files[state_file]
     ELSE <<[project_key |-> project_key, last_export_date |-> <<2025, 3, 11>>,
             issue_count |-> 0]>>

\* None when the file does not exist, else <<state>>
get_last_export_info(project_key) ==
  LET state_file == state_file_name(project_key)
  IN IF state_files[state_file] # None THEN state_files[state_file] ELSE None

\* faulty variant: the boundary saved is the day before the end of the range
save_export_info_day_before(project_key, end, issue_count) ==
  LET state_file == state_file_name(project_key)
      state == [project_key |-> project_key,
                last_export_date |-> strftime(end - 1),
                issue_count |-> issue_count]
  IN [state_files EXCEPT ![state_file] = <<state>>]

save_export_info(project_key, end, issue_count) ==
  LET state_file == state_file_name(project_key)
      state == [project_key |-> project_key,
                last_export_date |-> strftime(end),
                issue_count |-> issue_count]
  IN [state_files EXCEPT ![state_file] = <<state>>]

\* --------------------------------------------------------------- planning
\* faulty variant: the stored boundary is not used
start_date_str_of_ignoring_state(a, cfg, last_info) ==
  LET s0 == IF a.start_date # None THEN a.start_date ELSE DEFAULT_START
  IN IF cfg # None /\ a.start_date = None THEN Head(cfg).start_date ELSE s0

\* lines 357-378: the start and end strings the run parses
start_date_str_of(a, cfg, last_info) ==
  LET s0 == IF a.start_date # None THEN a.start_date ELSE DEFAULT_START
      s1 == IF cfg # None /\ a.start_date = None THEN Head(cfg).start_date ELSE s0
  IN IF a.incremental /\ last_info # None THEN Head(last_info).last_export_date ELSE s1

end_date_str_of(a) == IF a.end_date # None THEN a.end_date ELSE TODAY

\* The range a run would cover, in days (0 when the run is refused).
RangeDays(a, cfg, last_info) ==
  LET s == start_date_str_of(a, cfg, last_info)
      e == end_date_str_of(a)
  IN IF strptime_ok(s) /\ strptime_ok(e) /\ strptime(s) < strptime(e)
     THEN strptime(e) - strptime(s) ELSE 0

Init ==
  /\ args \in [start_date : StartArgs, end_date : EndArgs, incremental : BOOLEAN]
  /\ config \in Configs
  \* the config file's start date is read only when no --start-date is given
  /\ args.start_date # None => config = None
  /\ state_files \in [{state_file_name(PROJECT_KEY)} -> StoredStates]
  /\ files \in [{csv_file_name(PROJECT_KEY)} -> {None, StaleFile}]
  /\ RangeDays(args, config,
               IF args.incremental THEN state_files[state_file_name(PROJECT_KEY)]
               ELSE None) <= MaxRangeDays
  /\ initial = [state_files |-> state_files, files |-> files]
  /\ pc = "plan"
  /\ start_date = 0 /\ end_date = 0
  /\ current_start_date = 0 /\ current_end_date = 0
  /\ params = [createdAfter |-> None, createdBefore |-> None, p |-> 0]
  /\ all_issues = <<>>
  /\ total_issues_count = 0
  /\ write_mode = "w"
  /\ csv_file = None
  /\ retry_total = 0 /\ attempts = 0
  /\ response = None
  /\ requests = <<>> /\ windows = <<>> /\ replies = <<>>
  /\ result = None
  /\ project = PROJECT_KEY
  /\ output_file = None
  /\ server = [k \in {PROJECT_KEY} |-> "up"]
  /\ project_keys = <<>>
  /\ project_index = 0
  /\ results = <<>>
  /\ summary = None
  /\ exports = <<>>
  /\ store_log = <<>>
  /\ raw_issue = None
  /\ flat_row = None
  /\ run_args = <<>> /\ runs = <<>>
  /\ function_run = None

\* ------------------------------------------------------------ CSV writing
\* flatten_issue on every issue of a page
flatten_issue(issue) == [issue EXCEPT !.flat = TRUE]

\* faulty variant: a file that exists is added to, whatever the mode
to_csv_appending(old, rows, mode) ==
  IF old = None
  THEN <<[header |-> IF mode = "w" THEN 1 ELSE 0, rows |-> rows]>>
  ELSE <<[header |-> Head(old).header, rows |-> Head(old).rows \o rows]>>

\* df.to_csv(filename, index=False, mode=mode, header=(mode == 'w'))
to_csv(old, rows, mode) ==
  IF mode = "w" \/ old = None
  THEN <<[header |-> IF mode = "w" THEN 1 ELSE 0, rows |-> rows]>>
  ELSE <<[header |-> Head(old).header, rows |-> Head(old).rows \o rows]>>

\* faulty variant: the rows of a chunk are written last first
write_chunk_to_csv_reversed(filename, chunk_data, mode) ==
  LET flattened_data == [i \in 1..Len(chunk_data) |->
                           flatten_issue(chunk_data[Len(chunk_data) + 1 - i])]
  IN [files EXCEPT ![filename] = to_csv(files[filename], flattened_data, mode)]

\* faulty variant: every chunk is written in mode 'w'
write_chunk_to_csv_truncating(filename, chunk_data, mode) ==
  LET flattened_data == [i \in 1..Len(chunk_data) |-> flatten_issue(chunk_data[i])]
  IN [files EXCEPT ![filename] = to_csv(files[filename], flattened_data, "w")]

write_chunk_to_csv(filename, chunk_data, mode) ==
  LET flattened_data == [i \in 1..Len(chunk_data) |-> flatten_issue(chunk_data[i])]
  IN [files EXCEPT ![filename] = to_csv(files[filename], flattened_data, mode)]

\* ------------------------------------------------- export_single_project
\* faulty variant: an empty range (start = end) is let through
inverted_strict(start, end) == start > end

\* line 387
inverted(start, end) == start >= end

\* faulty variant: the last window is not cut at the end of the range
window_end_unclamped(start, end) == start + DELTA_DAYS

\* faulty variant: windows of 15 days
window_end_half(start, end) ==
  IF start + 15 > end THEN end ELSE start + 15

\* faulty variant: windows of 31 days
window_end_month(start, end) ==
  IF start + DELTA_DAYS + 1 > end THEN end ELSE start + DELTA_DAYS + 1

\* lines 418-420
window_end(start, end) ==
  IF start + DELTA_DAYS > end THEN end ELSE start + DELTA_DAYS

\* faulty variant: pages are asked for until one comes back empty
more_pages_until_empty(issues) == issues > 0

\* lines 465-468: another page is asked for unless this one came short
more_pages(issues) == ~(issues < page_size)

\* faulty variant: an object without the key counts as a page of 200 issues
issues_of_padded(r) == IF r.body = "issues" THEN r.n ELSE 200

\* line 448: len of data.get('issues', []), r a reply with a JSON object
issues_of(r) == IF r.body = "issues" THEN r.n ELSE 0

\* faulty variant: every other page is left out
next_page_skipping(p) == p + 2

\* line 468: params['p'] += 1
next_page(p) == p + 1

\* faulty variant: the mode stays what it was
mode_after_write_same(mode) == mode

\* line 462: append mode after the first write
mode_after_write(mode) == "a"

\* faulty variant: the buffer is written a page too late
buffer_full_late(buffer) == count(buffer) >= chunk_size + page_size

\* line 457: the buffer is looked at after the page has been put in
buffer_full(buffer) == count(buffer) >= chunk_size

\* lines 351-415: dates, validation, output file, counters
Plan ==
  /\ pc = "plan"
  /\ LET last_info == IF args.incremental THEN get_last_export_info(project)
                      ELSE None
         start_date_str == start_date_str_of(args, config, last_info)
         end_date_str == end_date_str_of(args)
     IN IF ~(strptime_ok(start_date_str) /\ strptime_ok(end_date_str))
        THEN /\ result' = <<[status |-> "failed", error |-> "Invalid date format"]>>
             /\ pc' = "done"
             /\ UNCHANGED <<start_date, end_date, current_start_date, csv_file>>
        ELSE IF inverted(strptime(start_date_str), strptime(end_date_str))
        THEN /\ result' = <<[status |-> "failed",
                             error |-> "Start date must be before end date"]>>
             /\ pc' = "done"
             /\ UNCHANGED <<start_date, end_date, current_start_date, csv_file>>
        ELSE /\ start_date' = strptime(start_date_str)
             /\ end_date' = strptime(end_date_str)
             /\ current_start_date' = strptime(start_date_str)
             /\ csv_file' = csv_file_of(project, output_file)
             /\ pc' = "window"
             /\ UNCHANGED result
  /\ all_issues' = <<>>
  /\ write_mode' = "w"
  /\ total_issues_count' = 0
  /\ UNCHANGED outer
  /\ UNCHANGED <<args, config, state_files, files, initial, current_end_date,
                 params, retry_total, attempts, response, requests, windows, replies>>

\* lines 417-439: the window loop's test and the window's first parameters
Window ==
  /\ pc = "window"
  /\ IF current_start_date < end_date
     THEN LET e == window_end(current_start_date, end_date)
          IN /\ current_end_date' = e
             /\ params' = [createdAfter |-> strftime(current_start_date),
                           createdBefore |-> strftime(e),
                           p |-> 1]
             /\ windows' = Append(windows, <<current_start_date, e>>)
             /\ pc' = "get"
     ELSE /\ pc' = "final"
          /\ UNCHANGED <<current_end_date, params, windows>>
  /\ retry_total' = RETRY_TOTAL
  /\ attempts' = 0
  /\ UNCHANGED outer
  /\ UNCHANGED <<args, config, state_files, files, initial, start_date, end_date,
                 current_start_date, all_issues, total_issues_count, write_mode,
                 csv_file, response, requests, replies, result>>

\* ---------------------------------------------------------------- server
status_forcelist == {429, 500, 502, 503, 504}

Reply(status, body, n) == [status |-> status, body |-> body, n |-> n]

\* What one HTTP attempt for page p can meet.  A 200 reply carries a JSON
\* object with n issues, a JSON object without the issues key, a JSON value
\* that is no object, or text that is no JSON.  Status 0 stands for no reply.
Outcomes(p) ==
  {Reply(200, "issues", n) : n \in {0, 200} \cup (IF p < MaxPages THEN {page_size} ELSE {})}
  \cup {Reply(200, b, 0) : b \in {"nokey", "notobject", "nonjson"}}
  \cup {Reply(st, "error", 0) : st \in {400, 401, 403, 404} \cup status_forcelist}
  \cup {Reply(0, b, 0) : b \in {"Timeout", "ConnectionError"}}

\* what the server answers for a project: anything of Outcomes when it is up,
\* 404 on every request when it does not know the project
Served(key, p) ==
  IF server[key] = "not_found" THEN {Reply(404, "error", 0)} ELSE Outcomes(p)

\* what urllib3 retries: a forced status, a timeout, a connection failure
Transient(o) == o.status \in status_forcelist \/ o.status = 0

\* Retry.increment() and Retry.is_exhausted() of the session's retry_strategy
retry_increment(total) == total - 1

\* faulty variant: total counts the attempts, not the retries
is_exhausted_early(total) == total <= 0

is_exhausted(total) == total < 0

\* line 443: session.get, one HTTP attempt per step.  urllib3 counts the
\* retries down inside the call: when the call returns a reply its counters
\* are gone, when it raises they show how far it got.
Get ==
  /\ pc = "get"
  /\ \E o \in Served(project, params.p) :
       /\ requests' = IF attempts = 0 THEN Append(requests, params) ELSE requests
       /\ IF Transient(o)
          THEN /\ attempts' = attempts + 1
               /\ retry_total' = retry_increment(retry_total)
               /\ IF is_exhausted(retry_increment(retry_total))
                  THEN /\ response' = <<Reply(0, IF o.status = 0 THEN o.body
                                                  ELSE "RetryError", 0)>>
                       /\ pc' = "handle"
                  ELSE /\ pc' = "get"
                       /\ UNCHANGED response
          ELSE /\ response' = <<o>>
               /\ pc' = "handle"
               /\ attempts' = 0
               /\ retry_total' = RETRY_TOTAL
  /\ UNCHANGED outer
  /\ UNCHANGED <<args, config, state_files, files, initial, start_date, end_date,
                 current_start_date, current_end_date, params, all_issues,
                 total_issues_count, write_mode, csv_file, windows, replies, result>>

\* lines 445-454 and 470-492: the reply is taken in, or the page loop is left
Handle ==
  /\ pc = "handle"
  /\ LET r == Head(response)
         issues == issues_of(r)
     IN IF r.status = 200 /\ r.body \in {"issues", "nokey"}
        THEN /\ IF issues > 0
                THEN /\ all_issues' = Append(all_issues,
                                             [w |-> Len(windows), p |-> params.p,
                                              n |-> issues, flat |-> FALSE])
                     /\ total_issues_count' = total_issues_count + issues
                ELSE UNCHANGED <<all_issues, total_issues_count>>
             /\ replies' = Append(replies, [ok |-> TRUE, n |-> issues])
             /\ pc' = "chunk"
             /\ UNCHANGED response
        ELSE /\ replies' = Append(replies, [ok |-> FALSE, n |-> 0])
             /\ pc' = "advance"
             /\ response' = None
             /\ UNCHANGED <<all_issues, total_issues_count>>
  /\ retry_total' = RETRY_TOTAL
  /\ attempts' = 0
  /\ UNCHANGED outer
  /\ UNCHANGED <<args, config, state_files, files, initial, start_date, end_date,
                 current_start_date, current_end_date, params, write_mode,
                 csv_file, requests, windows, result>>

\* lines 456-468: the chunk is written when the buffer is full, then the
\* page loop goes on or ends
Chunk ==
  /\ pc = "chunk"
  /\ IF buffer_full(all_issues)
     THEN /\ files' = write_chunk_to_csv(csv_file, all_issues, write_mode)
          /\ all_issues' = <<>>
          /\ write_mode' = mode_after_write(write_mode)
     ELSE UNCHANGED <<files, all_issues, write_mode>>
  /\ LET r == Head(response)
         issues == issues_of(r)
     IN IF more_pages(issues)
        THEN /\ params' = [params EXCEPT !.p = next_page(params.p)]
             /\ pc' = "get"
        ELSE /\ pc' = "advance"
             /\ UNCHANGED params
  /\ response' = None
  /\ UNCHANGED outer
  /\ UNCHANGED <<args, config, state_files, initial, start_date, end_date,
                 current_start_date, current_end_date, total_issues_count,
                 csv_file, retry_total, attempts, requests, windows, replies, result>>

\* line 494
Advance ==
  /\ pc = "advance"
  /\ current_start_date' = current_end_date
  /\ pc' = "window"
  /\ UNCHANGED outer
  /\ UNCHANGED <<args, config, state_files, files, initial, start_date, end_date,
                 current_end_date, params, all_issues, total_issues_count,
                 write_mode, csv_file, retry_total, attempts, response, requests,
                 windows, replies, result>>

\* lines 496-500: what is left in the buffer is written
Final ==
  /\ pc = "final"
  /\ IF all_issues # <<>>
     THEN files' = write_chunk_to_csv(csv_file, all_issues, write_mode)
     ELSE UNCHANGED files
  /\ pc' = "save"
  /\ UNCHANGED outer
  /\ UNCHANGED <<args, config, state_files, initial, start_date, end_date,
                 current_start_date, current_end_date, params, all_issues,
                 total_issues_count, write_mode, csv_file, retry_total, attempts,
                 response, requests, windows, replies, result>>

\* lines 502-513: the state file of incremental mode, and the returned dict
Complete ==
  /\ pc = "save"
  /\ IF total_issues_count > 0 /\ args.incremental
     THEN state_files' = save_export_info(project, end_date, total_issues_count)
     ELSE UNCHANGED state_files
  /\ result' = <<[status |-> "success", count |-> total_issues_count,
                  csv_file |-> csv_file, start_date |-> start_date,
                  end_date |-> end_date]>>
  /\ pc' = "done"
  /\ UNCHANGED outer
  /\ UNCHANGED <<args, config, files, initial, start_date, end_date,
                 current_start_date, current_end_date, params, all_issues,
                 total_issues_count, write_mode, csv_file, retry_total, attempts,
                 response, requests, windows, replies>>

Next == Plan \/ Window \/ Get \/ Handle \/ Chunk \/ Advance \/ Final \/ Complete

Spec == Init /\ [][Next]_vars

\* The script is one thread that runs until it returns: a step that can be
\* taken is taken.
SpecFair == Init /\ [][Next]_vars /\ WF_vars(Next)

\* ------------------------------------------------ export_multiple_projects
\* A second key that differs from PROJECT_KEY only in ':' and '/', and one
\* without either character.
KEY_SWAPPED == <<"o", "r", "g", "/", "a", ":", "b">>
KEY_PLAIN == <<"l", "i", "b">>
Keys == {PROJECT_KEY, KEY_SWAPPED, KEY_PLAIN}

\* the lists of project keys explored (load_project_keys keeps repetitions)
ProjectLists ==
  {<<PROJECT_KEY, KEY_PLAIN>>, <<KEY_PLAIN, PROJECT_KEY>>,
   <<PROJECT_KEY, KEY_SWAPPED>>, <<KEY_PLAIN, KEY_PLAIN>>}

\* a state file whose boundary is today: the project was exported earlier today
ExportedToday(key) ==
  <<[project_key |-> key, last_export_date |-> TODAY, issue_count |-> 700]>>

\* line 521, without --output
output_dir == "multi_project_export/"

\* lines 538-539
multi_output_file(key) ==
  LET safe_name == sanitize(key)
  IN <<output_dir>> \o safe_name \o <<"_issues.csv">>

\* results[k] = v on a dict held as its items in insertion order
dict_set(d, k, v) ==
  IF \E j \in 1..Len(d) : d[j].key = k
  THEN [j \in 1..Len(d) |-> IF d[j].key = k THEN [key |-> k, value |-> v] ELSE d[j]]
  ELSE Append(d, [key |-> k, value |-> v])

RECURSIVE tally(_)
\* lines 553-565: the loop over results.items()
tally(items) ==
  IF items = <<>>
  THEN [successful |-> 0, failed |-> 0, total_issues |-> 0]
  ELSE LET t == tally(Tail(items))
           r == Head(items).value
       IN IF r.status = "success"
          THEN [t EXCEPT !.successful = @ + 1, !.total_issues = @ + r.count]
          ELSE [t EXCEPT !.failed = @ + 1]

\* faulty variant: every other key is left out
next_index_skipping(index, r) == index + 2

\* faulty variant: the loop is left when a project has failed
next_index_stopping(index, r) ==
  IF r.status = "failed" THEN Len(project_keys) + 1 ELSE index + 1

\* line 532: the for loop takes the next key whatever the result was
next_index(index, r) == index + 1

InitMulti ==
  /\ args \in [start_date : {<<2025, 3, 1>>}, end_date : {None},
               incremental : BOOLEAN]
  /\ config = None
  /\ project_keys \in ProjectLists
  /\ server \in [Keys -> {"up", "not_found"}]
  /\ Cardinality({k \in Keys : server[k] = "not_found"}) <= 1
  /\ \A k \in Keys : server[k] = "not_found" =>
                        \E j \in 1..Len(project_keys) : project_keys[j] = k
  /\ state_files \in [{state_file_name(k) : k \in Keys} ->
                        {None, ExportedToday(PROJECT_KEY)}]
  /\ state_files[state_file_name(KEY_PLAIN)] = None
  /\ ~args.incremental => state_files[state_file_name(PROJECT_KEY)] = None
  /\ files = [f \in {multi_output_file(k) : k \in Keys} |-> None]
  /\ initial = [state_files |-> state_files, files |-> files]
  /\ pc = "loop"
  /\ project_index = 1
  /\ project = None
  /\ output_file = None
  /\ results = <<>>
  /\ summary = None
  /\ exports = <<>>
  /\ store_log = <<>>
  /\ raw_issue = None
  /\ flat_row = None
  /\ run_args = <<>> /\ runs = <<>>
  /\ function_run = None
  /\ start_date = 0 /\ end_date = 0
  /\ current_start_date = 0 /\ current_end_date = 0
  /\ params = [createdAfter |-> None, createdBefore |-> None, p |-> 0]
  /\ all_issues = <<>>
  /\ total_issues_count = 0
  /\ write_mode = "w"
  /\ csv_file = None
  /\ retry_total = 0 /\ attempts = 0
  /\ response = None
  /\ requests = <<>> /\ windows = <<>> /\ replies = <<>>
  /\ result = None

\* lines 532-542: the next key and its output file, and the call of
\* export_single_project with fresh locals; after the last key, the report
Loop ==
  /\ pc = "loop"
  /\ IF project_index <= Len(project_keys)
     THEN /\ project' = project_keys[project_index]
          /\ output_file' = multi_output_file(project_keys[project_index])
          /\ pc' = "plan"
     ELSE /\ pc' = "summary"
          /\ UNCHANGED <<project, output_file>>
  /\ initial' = [state_files |-> state_files, files |-> files]
  /\ start_date' = 0 /\ end_date' = 0
  /\ current_start_date' = 0 /\ current_end_date' = 0
  /\ params' = [createdAfter |-> None, createdBefore |-> None, p |-> 0]
  /\ all_issues' = <<>>
  /\ total_issues_count' = 0
  /\ write_mode' = "w"
  /\ csv_file' = None
  /\ requests' = <<>> /\ windows' = <<>> /\ replies' = <<>>
  /\ result' = None
  /\ UNCHANGED <<args, config, state_files, files, retry_total, attempts,
                 response, server, project_keys, project_index, results,
                 summary, exports, units>>

\* line 543: the result is put in the dict under the project's key
Record ==
  /\ pc = "done"
  /\ results' = dict_set(results, project, Head(result))
  /\ exports' = Append(exports,
                       [key |-> project,
                        status |-> Head(result).status,
                        count |-> IF Head(result).status = "success"
                                  THEN Head(result).count ELSE 0,
                        csv_file |-> output_file,
                        file |-> files[output_file]])
  /\ project_index' = next_index(project_index, Head(result))
  /\ pc' = "loop"
  /\ UNCHANGED <<args, config, state_files, files, initial, start_date,
                 end_date, current_start_date, current_end_date, params,
                 all_issues, total_issues_count, write_mode, csv_file,
                 retry_total, attempts, response, requests, windows, replies,
                 result, project, output_file, server, project_keys, summary,
                 units>>

\* lines 553-567: the counts of the report
Summary ==
  /\ pc = "summary"
  /\ summary' = <<tally(results)>>
  /\ pc' = "finished"
  /\ UNCHANGED <<args, config, state_files, files, initial, start_date,
                 end_date, current_start_date, current_end_date, params,
                 all_issues, total_issues_count, write_mode, csv_file,
                 retry_total, attempts, response, requests, windows, replies,
                 result, project, output_file, server, project_keys,
                 project_index, results, exports, units>>

NextMulti ==
  \/ Loop \/ Plan \/ Window \/ Get \/ Handle \/ Chunk \/ Advance \/ Final
  \/ Complete \/ Record \/ Summary

SpecMulti == InitMulti /\ [][NextMulti]_vars

\* ------------------------------------- the state file functions on their own
\* end dates and counts handed to save_export_info
StoreDates == {<<2025, 3, 11>>, <<2024, 2, 29>>}
StoreCounts == {1, 700}

\* the variables of an export, when none is running
AtRest ==
  /\ args = [start_date |-> None, end_date |-> None, incremental |-> FALSE]
  /\ config = None
  /\ start_date = 0 /\ end_date = 0
  /\ current_start_date = 0 /\ current_end_date = 0
  /\ params = [createdAfter |-> None, createdBefore |-> None, p |-> 0]
  /\ all_issues = <<>>
  /\ total_issues_count = 0
  /\ write_mode = "w"
  /\ csv_file = None
  /\ retry_total = 0 /\ attempts = 0
  /\ response = None
  /\ requests = <<>> /\ windows = <<>> /\ replies = <<>>
  /\ result = None
  /\ project = None
  /\ output_file = None
  /\ server = [k \in Keys |-> "up"]
  /\ project_keys = <<>>
  /\ project_index = 0
  /\ results = <<>>
  /\ summary = None
  /\ exports = <<>>
  /\ run_args = <<>> /\ runs = <<>>
  /\ function_run = None

\* what an export leaves alone while the functions are called on their own
rest == <<args, config, initial, start_date, end_date, current_start_date,
          current_end_date, params, all_issues, total_issues_count, write_mode,
          csv_file, retry_total, attempts, response, requests, windows,
          replies, result, project, output_file, server, project_keys,
          project_index, results, summary, exports, script>>

InitStore ==
  /\ AtRest
  /\ state_files \in [{state_file_name(k) : k \in Keys} ->
                        {None, ExportedToday(PROJECT_KEY)}]
  /\ state_files[state_file_name(KEY_PLAIN)] = None
  /\ files = [f \in {csv_file_name(k) : k \in Keys} |-> None]
  /\ initial = [state_files |-> state_files, files |-> files]
  /\ pc = "store"
  /\ store_log = <<>>
  /\ raw_issue = None
  /\ flat_row = None

\* save_export_info(project_key, end_date, issue_count)
CallSave ==
  /\ pc = "store"
  /\ Len(store_log) < MaxCalls
  /\ \E k \in Keys, d \in StoreDates, n \in StoreCounts :
       /\ state_files' = save_export_info(k, strptime(d), n)
       /\ store_log' = Append(store_log,
                              [op |-> "save", key |-> k,
                               file |-> state_file_name(k),
                               end_date |-> strptime(d), issue_count |-> n,
                               state |-> None])
  /\ UNCHANGED <<rest, files, pc, raw_issue, flat_row>>

\* get_last_export_info(project_key)
CallLoad ==
  /\ pc = "store"
  /\ Len(store_log) < MaxCalls
  /\ \E k \in Keys :
       store_log' = Append(store_log,
                           [op |-> "load", key |-> k,
                            file |-> state_file_name(k),
                            end_date |-> 0, issue_count |-> 0,
                            state |-> get_last_export_info(k)])
  /\ UNCHANGED <<rest, state_files, files, pc, raw_issue, flat_row>>

NextStore == CallSave \/ CallLoad

SpecStore == InitStore /\ [][NextStore]_vars

\* ------------------------------------------- flatten_issue, field by field
\* The fields of a raw record that hold a list or an object, and the shapes a
\* JSON value in their place can have: no such key, null, a list of strings,
\* a list of objects, an object (lists and objects with two members).
OptionalFields ==
  {"tags", "transitions", "actions", "comments", "flows", "impacts", "textRange"}
Shapes == {"absent", "null", "strings", "objects", "object"}

\* issue.get(field, default): the default only when the key is missing
get(record, field, default) ==
  IF record[field] = "absent" THEN default ELSE record[field]

Returned(v) == [raised |-> "", value |-> v]
Raised(e) == [raised |-> e, value |-> ""]

\* ','.join(v)
join(v) ==
  CASE v = "empty_list" -> Returned("")
    [] v = "strings" -> Returned("a,b")
    [] v = "object" -> Returned("k1,k2")
    [] v = "objects" -> Raised("TypeError")
    [] v = "null" -> Raised("TypeError")

\* len(v)
len(v) ==
  CASE v = "empty_list" -> Returned(0)
    [] v \in {"strings", "objects", "object"} -> Returned(2)
    [] v = "null" -> Raised("TypeError")

\* lines 170-172: imp.get on every member, unless impacts is empty or None
impacts_str_of(impacts) ==
  CASE impacts \in {"empty_list", "null"} -> Returned("")
    [] impacts = "objects" -> Returned("q1:s1; q2:s2")
    [] impacts \in {"strings", "object"} -> Raised("AttributeError")

\* text_range.get(name, '') if isinstance(text_range, dict) else ''
text_range_column(text_range) ==
  IF text_range = "object" THEN "n" ELSE ""

\* lines 167-210 for the fields that are no scalars: the row, or the first
\* exception in the order Python evaluates the fields
flatten_record(record) ==
  LET text_range == get(record, "textRange", "empty_dict")
      impacts_str == impacts_str_of(get(record, "impacts", "empty_list"))
      tags == join(get(record, "tags", "empty_list"))
      transitions == join(get(record, "transitions", "empty_list"))
      actions == join(get(record, "actions", "empty_list"))
      comments == len(get(record, "comments", "empty_list"))
      flows == len(get(record, "flows", "empty_list"))
      steps == <<impacts_str, tags, transitions, actions, comments, flows>>
      failing == {j \in 1..Len(steps) : steps[j].raised # ""}
  IN IF failing # {}
     THEN [error |-> steps[CHOOSE j \in failing : \A m \in failing : j <= m].raised,
           row |-> <<>>]
     ELSE [error |-> "",
           row |-> <<[startLine |-> text_range_column(text_range),
                      endLine |-> text_range_column(text_range),
                      startOffset |-> text_range_column(text_range),
                      endOffset |-> text_range_column(text_range),
                      tags |-> tags.value,
                      transitions |-> transitions.value,
                      actions |-> actions.value,
                      comments |-> comments.value,
                      flows |-> flows.value,
                      impacts |-> impacts_str.value]>>]

InitFlatten ==
  /\ AtRest
  /\ state_files = [f \in {state_file_name(k) : k \in Keys} |-> None]
  /\ files = [f \in {csv_file_name(k) : k \in Keys} |-> None]
  /\ initial = [state_files |-> state_files, files |-> files]
  /\ pc = "flatten"
  /\ store_log = <<>>
  /\ raw_issue \in [OptionalFields -> Shapes]
  /\ flat_row = None

\* flatten_issue(issue)
Flatten ==
  /\ pc = "flatten"
  /\ flat_row' = <<flatten_record(raw_issue)>>
  /\ pc' = "flattened"
  /\ UNCHANGED <<rest, state_files, files, store_log, raw_issue>>

NextFlatten == Flatten

SpecFlatten == InitFlatten /\ [][NextFlatten]_vars

\* ------------------------------------- export_single_project, run after run
\* Incremental exports of one project made one after the other, each with its
\* own end date (None: today), all with the same configured start.
RunEnds == {None, <<2025, 3, 5>>}

RunArgs(e) == [start_date |-> <<2025, 2, 25>>, end_date |-> e, incremental |-> TRUE]

\* the end dates of the runs, in the order the runs are made
RunPlans ==
  {<<RunArgs(e1), RunArgs(e2)>> : e1 \in RunEnds, e2 \in RunEnds}
  \cup {<<RunArgs(<<2025, 3, 5>>), RunArgs(<<2025, 3, 8>>), RunArgs(None)>>}

InitRuns ==
  /\ \E plan \in RunPlans : args = Head(plan) /\ run_args = Tail(plan)
  /\ runs = <<>>
  /\ config = None
  /\ state_files \in [{state_file_name(PROJECT_KEY)} -> StoredStates]
  /\ files = [f \in {csv_file_name(PROJECT_KEY)} |-> None]
  /\ initial = [state_files |-> state_files, files |-> files]
  /\ pc = "plan"
  /\ start_date = 0 /\ end_date = 0
  /\ current_start_date = 0 /\ current_end_date = 0
  /\ params = [createdAfter |-> None, createdBefore |-> None, p |-> 0]
  /\ all_issues = <<>>
  /\ total_issues_count = 0
  /\ write_mode = "w"
  /\ csv_file = None
  /\ retry_total = 0 /\ attempts = 0
  /\ response = None
  /\ requests = <<>> /\ windows = <<>> /\ replies = <<>>
  /\ result = None
  /\ project = PROJECT_KEY
  /\ output_file = None
  /\ server = [k \in {PROJECT_KEY} |-> "up"]
  /\ project_keys = <<>>
  /\ project_index = 0
  /\ results = <<>>
  /\ summary = None
  /\ exports = <<>>
  /\ store_log = <<>>
  /\ raw_issue = None
  /\ flat_row = None
  /\ function_run = None

\* export_single_project has returned: what the run did is noted, and the
\* function is called again with the next arguments and fresh locals, on the
\* disk the run left
Rerun ==
  /\ pc = "done"
  /\ runs' = Append(runs, [args |-> args, result |-> Head(result),
                           before |-> initial.state_files,
                           after |-> state_files,
                           windows |-> windows, requests |-> requests,
                           replies |-> replies])
  /\ IF run_args # <<>>
     THEN /\ args' = Head(run_args)
          /\ run_args' = Tail(run_args)
          /\ pc' = "plan"
     ELSE /\ pc' = "halt"
          /\ UNCHANGED <<args, run_args>>
  /\ initial' = [state_files |-> state_files, files |-> files]
  /\ start_date' = 0 /\ end_date' = 0
  /\ current_start_date' = 0 /\ current_end_date' = 0
  /\ params' = [createdAfter |-> None, createdBefore |-> None, p |-> 0]
  /\ all_issues' = <<>>
  /\ total_issues_count' = 0
  /\ write_mode' = "w"
  /\ csv_file' = None
  /\ requests' = <<>> /\ windows' = <<>> /\ replies' = <<>>
  /\ result' = None
  /\ UNCHANGED <<config, state_files, files, retry_total, attempts, response,
                 project, output_file, server, project_keys, project_index,
                 results, summary, exports, store_log, raw_issue, flat_row,
                 function_run>>

NextRuns ==
  \/ Plan \/ Window \/ Get \/ Handle \/ Chunk \/ Advance \/ Final \/ Complete
  \/ Rerun

SpecRuns == InitRuns /\ [][NextRuns]_vars

\* --------------------------------- the module-level single-project path
\* Lines 600-807 run when no projects file is given.  They are a second copy
\* of the pipeline, on the script's globals.  To set the two copies side by
\* side, export_single_project is run first; what it did is kept in
\* function_run, the state file is put back as the run found it, and the
\* module-level path runs on the same arguments, getting for its k-th request
\* a reply that export_single_project took the same way for its k-th.
MAIN_DELTA_DAYS == 30
main_page_size == 500
main_chunk_size == 5000

\* lines 653-656
main_csv_file_of(out) ==
  IF out # None
  THEN IF endswith_csv(out) THEN out ELSE out \o <<".csv">>
  ELSE <<"sonarqube", "_issues.csv">>

\* line 636
main_inverted(start, end) == start >= end

\* faulty variant: the state is saved whatever the count
main_saves_every_count(total, incremental) == incremental

\* lines 779 and 801: the state is saved inside the branch of a count above 0
main_saves(total, incremental) == total > 0 /\ incremental

\* what session.get (line 713) returns or raises, the retries of the session
\* made inside the call
SessionGet(key, p) ==
  {o \in Served(key, p) : ~Transient(o)}
  \cup {Reply(0, b, 0) : b \in {"Timeout", "ConnectionError", "RetryError"}}

\* how a reply is taken by either copy: as a page of n issues, or as the end
\* of the page loop
Taken(r) ==
  IF r.status = 200 /\ r.body \in {"issues", "nokey"}
  THEN [ok |-> TRUE, n |-> IF r.body = "issues" THEN r.n ELSE 0]
  ELSE [ok |-> FALSE, n |-> 0]

InitMain ==
  /\ args \in [start_date : StartArgs, end_date : EndArgs, incremental : BOOLEAN]
  /\ config \in Configs
  /\ args.start_date # None => config = None
  /\ state_files \in [{state_file_name(PROJECT_KEY)} -> StoredStates]
  \* both output files are there, or neither
  /\ \E c \in {None, StaleFile} :
       files = [f \in {csv_file_name(PROJECT_KEY), main_csv_file_of(None)} |-> c]
  /\ RangeDays(args, config,
               IF args.incremental THEN state_files[state_file_name(PROJECT_KEY)]
               ELSE None) <= MaxRangeDays
  /\ initial = [state_files |-> state_files, files |-> files]
  /\ pc = "plan"
  /\ start_date = 0 /\ end_date = 0
  /\ current_start_date = 0 /\ current_end_date = 0
  /\ params = [createdAfter |-> None, createdBefore |-> None, p |-> 0]
  /\ all_issues = <<>>
  /\ total_issues_count = 0
  /\ write_mode = "w"
  /\ csv_file = None
  /\ retry_total = 0 /\ attempts = 0
  /\ response = None
  /\ requests = <<>> /\ windows = <<>> /\ replies = <<>>
  /\ result = None
  /\ project = PROJECT_KEY
  /\ output_file = None
  /\ server = [k \in {PROJECT_KEY} |-> "up"]
  /\ project_keys = <<>>
  /\ project_index = 0
  /\ results = <<>>
  /\ summary = None
  /\ exports = <<>>
  /\ store_log = <<>>
  /\ raw_issue = None
  /\ flat_row = None
  /\ run_args = <<>> /\ runs = <<>>
  /\ function_run = None

\* what the module-level path leaves alone
aside == <<args, config, initial, retry_total, attempts, project, output_file,
           server, project_keys, project_index, results, summary, exports,
           store_log, raw_issue, flat_row, run_args, runs>>

\* line 600: the script takes the single-project path, on the inputs
\* export_single_project had
Main ==
  /\ pc = "done"
  /\ function_run = None
  /\ function_run' = <<[requests |-> requests, replies |-> replies,
                        windows |-> windows, result |-> Head(result),
                        state_files |-> state_files]>>
  /\ state_files' = initial.state_files
  /\ pc' = "main_plan"
  /\ start_date' = 0 /\ end_date' = 0
  /\ current_start_date' = 0 /\ current_end_date' = 0
  /\ params' = [createdAfter |-> None, createdBefore |-> None, p |-> 0]
  /\ all_issues' = <<>>
  /\ total_issues_count' = 0
  /\ write_mode' = "w"
  /\ csv_file' = None
  /\ response' = None
  /\ requests' = <<>> /\ windows' = <<>> /\ replies' = <<>>
  /\ result' = None
  /\ UNCHANGED <<aside, files>>

\* lines 601-664: dates, validation, output file, counters
MainPlan ==
  /\ pc = "main_plan"
  /\ LET s0 == IF args.start_date # None THEN args.start_date ELSE <<2000, 1, 1>>
         end_date_str == IF args.end_date # None THEN args.end_date ELSE TODAY
         s1 == IF config # None /\ args.start_date = None
               THEN Head(config).start_date ELSE s0
         last_info == IF args.incremental THEN get_last_export_info(PROJECT_KEY)
                      ELSE None
         start_date_str == IF last_info # None
                           THEN Head(last_info).last_export_date ELSE s1
     IN IF ~(strptime_ok(start_date_str) /\ strptime_ok(end_date_str))
        THEN /\ result' = <<[status |-> "exit", code |-> 1]>>
             /\ pc' = "main_exit"
             /\ UNCHANGED <<start_date, end_date, current_start_date, all_issues,
                            csv_file, write_mode, total_issues_count>>
        ELSE IF main_inverted(strptime(start_date_str), strptime(end_date_str))
        THEN /\ result' = <<[status |-> "exit", code |-> 1]>>
             /\ pc' = "main_exit"
             /\ UNCHANGED <<start_date, end_date, current_start_date, all_issues,
                            csv_file, write_mode, total_issues_count>>
        ELSE /\ start_date' = strptime(start_date_str)
             /\ end_date' = strptime(end_date_str)
             /\ current_start_date' = strptime(start_date_str)
             /\ all_issues' = <<>>
             /\ csv_file' = main_csv_file_of(output_file)
             /\ write_mode' = "w"
             /\ total_issues_count' = 0
             /\ pc' = "main_window"
             /\ UNCHANGED result
  /\ UNCHANGED <<aside, function_run, state_files, files, current_end_date, params,
                 response, requests, windows, replies>>

\* lines 682-707: the window loop's test and the window's first parameters
MainWindow ==
  /\ pc = "main_window"
  /\ IF current_start_date < end_date
     THEN LET e == IF current_start_date + MAIN_DELTA_DAYS > end_date
                   THEN end_date ELSE current_start_date + MAIN_DELTA_DAYS
          IN /\ current_end_date' = e
             /\ params' = [createdAfter |-> strftime(current_start_date),
                           createdBefore |-> strftime(e),
                           p |-> 1]
             /\ windows' = Append(windows, <<current_start_date, e>>)
             /\ pc' = "main_get"
     ELSE /\ pc' = "main_final"
          /\ UNCHANGED <<current_end_date, params, windows>>
  /\ UNCHANGED <<aside, function_run, state_files, files, start_date, end_date,
                 current_start_date, all_issues, total_issues_count, write_mode,
                 csv_file, response, requests, replies, result>>

\* line 713: session.get, given a reply that export_single_project took the
\* same way at this place in its sequence of requests
MainGet ==
  /\ pc = "main_get"
  /\ requests' = Append(requests, params)
  /\ \E o \in SessionGet(PROJECT_KEY, params.p) :
       /\ Len(requests) < Len(Head(function_run).replies) =>
            Taken(o) = Head(function_run).replies[Len(requests) + 1]
       /\ response' = <<o>>
  /\ pc' = "main_handle"
  /\ UNCHANGED <<aside, function_run, state_files, files, start_date, end_date,
                 current_start_date, current_end_date, params, all_issues,
                 total_issues_count, write_mode, csv_file, windows, replies, result>>

\* lines 715-724 and 740-769: the reply is taken in, or the page loop is left
MainHandle ==
  /\ pc = "main_handle"
  /\ LET r == Head(response)
         issues == IF r.body = "issues" THEN r.n ELSE 0
     IN IF r.status = 200
        THEN IF r.body \in {"issues", "nokey"}
             THEN /\ IF issues > 0
                     THEN /\ all_issues' = Append(all_issues,
                                                  [w |-> Len(windows), p |-> params.p,
                                                   n |-> issues, flat |-> FALSE])
                          /\ total_issues_count' = total_issues_count + issues
                     ELSE UNCHANGED <<all_issues, total_issues_count>>
                  /\ replies' = Append(replies, [ok |-> TRUE, n |-> issues])
                  /\ pc' = "main_chunk"
                  /\ UNCHANGED response
             ELSE /\ replies' = Append(replies, [ok |-> FALSE, n |-> 0])
                  /\ pc' = "main_advance"
                  /\ response' = None
                  /\ UNCHANGED <<all_issues, total_issues_count>>
        ELSE /\ replies' = Append(replies, [ok |-> FALSE, n |-> 0])
             /\ pc' = "main_advance"
             /\ response' = None
             /\ UNCHANGED <<all_issues, total_issues_count>>
  /\ UNCHANGED <<aside, function_run, state_files, files, start_date, end_date,
                 current_start_date, current_end_date, params, write_mode,
                 csv_file, requests, windows, result>>

\* lines 726-738: the chunk is written when the buffer is full, then the page
\* loop goes on or ends
MainChunk ==
  /\ pc = "main_chunk"
  /\ IF count(all_issues) >= main_chunk_size
     THEN /\ files' = write_chunk_to_csv(csv_file, all_issues, write_mode)
          /\ all_issues' = <<>>
          /\ write_mode' = "a"
     ELSE UNCHANGED <<files, all_issues, write_mode>>
  /\ LET r == Head(response)
         issues == IF r.body = "issues" THEN r.n ELSE 0
     IN IF issues < main_page_size
        THEN /\ pc' = "main_advance"
             /\ UNCHANGED params
        ELSE /\ params' = [params EXCEPT !.p = params.p + 1]
             /\ pc' = "main_get"
  /\ response' = None
  /\ UNCHANGED <<aside, function_run, state_files, start_date, end_date,
                 current_start_date, current_end_date, total_issues_count,
                 csv_file, requests, windows, replies, result>>

\* line 771
MainAdvance ==
  /\ pc = "main_advance"
  /\ current_start_date' = current_end_date
  /\ pc' = "main_window"
  /\ UNCHANGED <<aside, function_run, state_files, files, start_date, end_date,
                 current_end_date, params, all_issues, total_issues_count,
                 write_mode, csv_file, response, requests, windows, replies, result>>

\* lines 773-777: what is left in the buffer is written
MainFinal ==
  /\ pc = "main_final"
  /\ IF all_issues # <<>>
     THEN files' = write_chunk_to_csv(csv_file, all_issues, write_mode)
     ELSE UNCHANGED files
  /\ pc' = "main_save"
  /\ UNCHANGED <<aside, function_run, state_files, start_date, end_date,
                 current_start_date, current_end_date, params, all_issues,
                 total_issues_count, write_mode, csv_file, response, requests,
                 windows, replies, result>>

\* lines 779-807: the state file of incremental mode, and the end of the script
MainComplete ==
  /\ pc = "main_save"
  /\ IF main_saves(total_issues_count, args.incremental)
     THEN state_files' = save_export_info(PROJECT_KEY, end_date, total_issues_count)
     ELSE UNCHANGED state_files
  /\ result' = <<[status |-> "exit", code |-> 0]>>
  /\ pc' = "main_exit"
  /\ UNCHANGED <<aside, function_run, files, start_date, end_date,
                 current_start_date, current_end_date, params, all_issues,
                 total_issues_count, write_mode, csv_file, response, requests,
                 windows, replies>>

NextMain ==
  \/ Plan \/ Window \/ Get \/ Handle \/ Chunk \/ Advance \/ Final \/ Complete
  \/ Main \/ MainPlan \/ MainWindow \/ MainGet \/ MainHandle \/ MainChunk
  \/ MainAdvance \/ MainFinal \/ MainComplete

SpecMain == InitMain /\ [][NextMain]_vars

\* ================================================================ claims
\* Stated from the inputs and the histories, not from the operators above.

STATE_FILE == <<".last_export_", "o", "r", "g", "_", "a", "_", "b", ".json">>
CSV_FILE == <<"o", "r", "g", "_", "a", "_", "b", "_issues.csv">>

Done == pc = "done"
Succeeded == Done /\ Head(result).status = "success"
Refused == Done /\ Head(result).status = "failed"

\* indices of the session.get calls that ended in failure
Failed == {i \in 1..Len(replies) : ~replies[i].ok}

\* the range the run is asked for, as date strings
ExpectedStart ==
  IF args.incremental /\ initial.state_files[STATE_FILE] # None
  THEN Head(initial.state_files[STATE_FILE]).last_export_date
  ELSE IF args.start_date # None THEN args.start_date
  ELSE IF config # None THEN Head(config).start_date
  ELSE <<2000, 1, 1>>

ExpectedEnd == IF args.end_date # None THEN args.end_date ELSE TODAY

BadRange ==
  \/ ~strptime_ok(ExpectedStart)
  \/ ~strptime_ok(ExpectedEnd)
  \/ toordinal(ExpectedStart[1], ExpectedStart[2], ExpectedStart[3])
       >= toordinal(ExpectedEnd[1], ExpectedEnd[2], ExpectedEnd[3])

\* the windows as the date strings a request carries
WindowStrings ==
  [j \in 1..Len(windows) |-> <<strftime(windows[j][1]), strftime(windows[j][2])>>]

RECURSIVE FetchedUpTo(_, _)
\* the pages of issues received by the first k calls, in order; ws are the
\* windows' date strings, which tell the window a request belongs to
FetchedUpTo(k, ws) ==
  IF k = 0 THEN <<>>
  ELSE IF replies[k].ok /\ replies[k].n > 0
       THEN Append(FetchedUpTo(k - 1, ws),
                   [w |-> CHOOSE j \in 1..Len(ws) :
                            ws[j][1] = requests[k].createdAfter,
                    p |-> requests[k].p, n |-> replies[k].n, flat |-> FALSE])
       ELSE FetchedUpTo(k - 1, ws)

Fetched == FetchedUpTo(Len(replies), WindowStrings)

Flat(blocks) == [i \in 1..Len(blocks) |-> [blocks[i] EXCEPT !.flat = TRUE]]

\* the rows this run has put in the output file so far
RunRows ==
  IF write_mode = "a" \/ (pc \in {"save", "done"} /\ all_issues # <<>>)
  THEN Head(files[CSV_FILE]).rows ELSE <<>>

\* C1: the windows of the loop are increasing and contiguous: the first starts
\* at the start of the range, each starts where the one before ended, the last
\* ends at the end of the range, and the requests carry exactly these windows.
C1_WindowsContiguous ==
  /\ \A i \in 1..Len(windows) : windows[i][1] < windows[i][2]
  /\ windows # <<>> => windows[1][1] = start_date
  /\ \A i \in 2..Len(windows) : windows[i][1] = windows[i - 1][2]
  /\ (pc \in {"final", "save"} \/ Succeeded) =>
       /\ windows # <<>>
       /\ windows[Len(windows)][2] = end_date
       /\ strftime(end_date) = ExpectedEnd
  /\ LET ws == WindowStrings
     IN \A i \in 1..Len(requests) :
          \E j \in 1..Len(ws) :
            <<requests[i].createdAfter, requests[i].createdBefore>> = ws[j]

C1_Witness == Succeeded /\ Len(windows) = 2 /\ Len(requests) >= 3

\* C2: an export in which some page request failed returns status failed.
C2_FailureGivesFailed == (Done /\ Failed # {}) => Head(result).status = "failed"

\* C3: after a page request has failed no further request is issued.
C3_NoRequestAfterFailure == \A i \in Failed : Len(requests) = i

\* C4: the state file changes only in a run whose windows were all fetched
\* without a failure.
C4_WatermarkOnlyAfterFullSuccess ==
  state_files # initial.state_files => Failed = {}

C6_EffectiveStart ==
  /\ requests # <<>> => requests[1].createdAfter = ExpectedStart
  /\ windows # <<>> => strftime(windows[1][1]) = ExpectedStart

C6_Witness ==
  /\ args.incremental
  /\ initial.state_files[STATE_FILE] # None
  /\ args.start_date = <<2025, 1, 1>>
  /\ requests # <<>>
  /\ requests[1].createdAfter = <<2025, 3, 1>>

\* C7: with a malformed date or a start not before the end, the run ends
\* failed without a request, and leaves the output file and the state file
\* as they were.
C7_BadRangeRefused ==
  BadRange =>
    /\ pc \in {"plan", "done"}
    /\ Done => Head(result).status = "failed"
    /\ requests = <<>>
    /\ files = initial.files
    /\ state_files = initial.state_files

C7_Witness ==
  /\ Refused
  /\ strptime_ok(ExpectedStart) /\ ExpectedStart = ExpectedEnd
  /\ initial.files[CSV_FILE] # None

\* request i was followed by the next page of the same window
Continued(i) ==
  IF i < Len(requests)
  THEN /\ requests[i + 1].createdAfter = requests[i].createdAfter
       /\ requests[i + 1].createdBefore = requests[i].createdBefore
       /\ requests[i + 1].p = requests[i].p + 1
  ELSE pc = "get" /\ params.p = requests[i].p + 1

Unflat(blocks) == [i \in 1..Len(blocks) |-> [blocks[i] EXCEPT !.flat = FALSE]]

\* C8: once a page has been taken in, the next page of the window is asked for
\* exactly when the page held 500 issues, and the issues held for the run (in
\* the file and the buffer) are the pages received, in order.
C8_Pagination ==
  /\ \A i \in 1..Len(replies) :
       (replies[i].ok /\ ~(i = Len(requests) /\ pc = "chunk")) =>
         (Continued(i) <=> replies[i].n = 500)
  /\ pc \in {"get", "handle", "chunk", "advance", "window", "final"} =>
       Unflat(RunRows) \o all_issues = Fetched

C8_Witness ==
  /\ pc = "advance"
  /\ replies = <<[ok |-> TRUE, n |-> 500], [ok |-> TRUE, n |-> 200]>>
  /\ Len(requests) = 2
  /\ requests[1].p = 1 /\ requests[2].p = 2
  /\ count(all_issues) = 700

\* session.get has raised after running out of retries
Exhausted == pc = "handle" /\ Head(response).status = 0

\* C9 as stated: a request that only meets transient outcomes is given up
\* after 3 attempts.
C9_ThreeAttempts == Exhausted => attempts = 3

\* C9 amended: a request that only meets transient outcomes is given up after
\* 4 attempts (the first and 3 retries), never more, and the call is then
\* recorded as failed and the page loop of the window left.
C9_FourAttempts ==
  /\ [](/\ Exhausted => attempts = 4
        /\ attempts <= 4
        /\ pc = "get" => attempts < 4)
  /\ [][Exhausted =>
          /\ pc' = "advance"
          /\ Len(replies') = Len(requests)
          /\ ~replies'[Len(replies')].ok]_vars

C9_Witness == Exhausted /\ Head(response).body = "RetryError" /\ attempts = 4

\* C10: when the export has fetched at least one issue, the output file ends
\* with one header row and the issues fetched, each once, in the order they
\* were fetched, however they were split into pages, windows and chunks.
C10_FileHoldsFetched ==
  (Succeeded /\ Fetched # <<>>) =>
    files[CSV_FILE] = <<[header |-> 1, rows |-> Flat(Fetched)]>>

C10_Witness ==
  /\ Succeeded
  /\ initial.files[CSV_FILE] # None
  /\ write_mode = "a" /\ all_issues # <<>>
  /\ \E i \in 1..Len(Fetched) : Fetched[i].w = 2 /\ Fetched[i].n = 200
  /\ Failed = {}

FileRows == IF files[CSV_FILE] = None THEN <<>> ELSE Head(files[CSV_FILE]).rows

\* C18 as stated: after a successful export with count n the output file
\* holds n data rows, the issues fetched in this run, also when n is 0 and
\* when an earlier run left a file there.
C18_FileHoldsCount ==
  Succeeded =>
    /\ Head(result).csv_file = CSV_FILE
    /\ Head(result).count = count(Fetched)
    /\ count(FileRows) = Head(result).count
    /\ FileRows = Flat(Fetched)

\* C18 amended: after a successful export with count n above zero the output
\* file holds one header and n data rows, the issues fetched in this run,
\* also when an earlier run left a file there; with count zero nothing is
\* written and the file is as the run found it.
C18_FileHoldsPositiveCount ==
  Succeeded =>
    /\ Head(result).csv_file = CSV_FILE
    /\ Head(result).count = count(Fetched)
    /\ IF Head(result).count > 0
       THEN /\ files[CSV_FILE] # None
            /\ Head(files[CSV_FILE]).header = 1
            /\ count(FileRows) = Head(result).count
            /\ FileRows = Flat(Fetched)
       ELSE files = initial.files

C18_Witness ==
  /\ Succeeded
  /\ Head(result).count = 0
  /\ Failed = {}
  /\ initial.files[CSV_FILE] = StaleFile
  /\ count(FileRows) = 7

\* C20: every window is not empty and at most 30 days long, every window but
\* the last is 30 days long, the last one ends the range, and the range
\* 2025-01-01..2025-02-15 is cut into 01-01..01-31 and 01-31..02-15.
C20_WindowSpans ==
  /\ \A i \in 1..Len(windows) :
       /\ windows[i][1] < windows[i][2]
       /\ windows[i][2] - windows[i][1] <= 30
       /\ i < Len(windows) => windows[i][2] - windows[i][1] = 30
  /\ (pc \in {"final", "save"} \/ Succeeded) =>
       /\ windows # <<>>
       /\ windows[Len(windows)][2] - windows[Len(windows)][1]
            = (end_date - start_date) - 30 * (Len(windows) - 1)
       /\ (ExpectedStart = <<2025, 1, 1>> /\ ExpectedEnd = <<2025, 2, 15>>) =>
            WindowStrings = << <<<<2025, 1, 1>>, <<2025, 1, 31>>>>,
                               <<<<2025, 1, 31>>, <<2025, 2, 15>>>> >>

C20_Witness ==
  /\ Succeeded
  /\ ExpectedStart = <<2025, 1, 1>> /\ ExpectedEnd = <<2025, 2, 15>>
  /\ ~args.incremental
  /\ Len(windows) = 2
  /\ windows[2][2] - windows[2][1] = 15

\* a date string as a day number
Day(s) == toordinal(s[1], s[2], s[3])

\* C21: the requests of an export come one after the other; the first asks
\* for page 1, and each later one asks either for the next page of the same
\* window or for page 1 of a window that starts where the one before ended,
\* so that no request of a window comes after a request of a later window.
C21_RequestsInOrder ==
  /\ requests # <<>> => requests[1].p = 1
  /\ \A i \in 2..Len(requests) :
       \/ /\ requests[i].createdAfter = requests[i - 1].createdAfter
          /\ requests[i].createdBefore = requests[i - 1].createdBefore
          /\ requests[i].p = requests[i - 1].p + 1
       \/ /\ requests[i].createdAfter = requests[i - 1].createdBefore
          /\ requests[i].p = 1
  /\ \A i, j \in 1..Len(requests) :
       i < j => Day(requests[i].createdAfter) <= Day(requests[j].createdAfter)
  /\ Len(replies) \in {Len(requests), Len(requests) - 1}

C21_Witness ==
  /\ Len(requests) = 4
  /\ requests[1].p = 1 /\ requests[2].p = 2 /\ requests[3].p = 3
  /\ requests[4].p = 1
  /\ requests[4].createdAfter = requests[3].createdBefore
  /\ Failed = {}

\* C22: a step that writes the output file is the first of the export to do so
\* exactly when the mode is 'w'; the first write leaves the header and the
\* rows of the buffer and nothing else, every later write leaves the header
\* where it was, once, and adds the rows of the buffer after the rows that
\* were there.
C22_HeaderOnce ==
  [][files' # files =>
       LET first == files = initial.files
           new == Head(files'[CSV_FILE])
       IN /\ files'[CSV_FILE] # None
          /\ first <=> write_mode = "w"
          /\ new.header = 1
          /\ IF first
             THEN new.rows = Flat(all_issues)
             ELSE new.rows = Head(files[CSV_FILE]).rows \o Flat(all_issues)
          /\ pc' # "save" => write_mode' = "a"]_vars

C22_Witness ==
  /\ pc = "save"
  /\ write_mode = "a"
  /\ all_issues # <<>>
  /\ initial.files[CSV_FILE] # None
  /\ Head(files[CSV_FILE]).header = 1
  /\ Len(Head(files[CSV_FILE]).rows) > Len(all_issues)

\* an export that has started and not yet returned
Running == pc \in {"window", "get", "handle", "chunk", "advance", "final", "save"}

IsPrefix(a, b) == Len(a) <= Len(b) /\ a = SubSeq(b, 1, Len(a))

\* C23 as stated: while an export is running the rows in the output file are
\* the first of the issues fetched so far, in the order fetched, and the state
\* file is as the run found it.
C23_FileIsPrefix ==
  Running =>
    /\ IsPrefix(FileRows, Flat(Fetched))
    /\ state_files = initial.state_files

\* C23 amended: while an export is running the state file is as the run found
\* it, and the output file is as the run found it until the run's first
\* write; from then on it holds one header and the first of the issues
\* fetched so far, in the order fetched.
C23_WrittenIsPrefix ==
  Running =>
    /\ state_files = initial.state_files
    /\ files # initial.files =>
         /\ files[CSV_FILE] # None
         /\ Head(files[CSV_FILE]).header = 1
         /\ FileRows # <<>>
         /\ IsPrefix(FileRows, Flat(Fetched))
    /\ (files = initial.files /\ pc # "save") =>
         Flat(all_issues) = Flat(Fetched)

C23_Witness ==
  /\ pc = "advance"
  /\ initial.state_files[STATE_FILE] # None
  /\ initial.files[CSV_FILE] # None
  /\ files # initial.files
  /\ all_issues # <<>>
  /\ Len(FileRows) < Len(Fetched)

\* C24: when the first request of a window is about to be issued, the buffer
\* holds no unflattened issue of an earlier window.
C24_FlattenedBeforeNextWindow ==
  (pc = "get" /\ params.p = 1 /\ attempts = 0) =>
    \A i \in 1..Len(all_issues) :
      ~(all_issues[i].w < Len(windows) /\ ~all_issues[i].flat)

\* the start a run without a state file is asked for
ConfiguredStart ==
  IF args.start_date # None THEN args.start_date
  ELSE IF config # None THEN Head(config).start_date
  ELSE <<2000, 1, 1>>

\* C26: when there is no state file for the key, get_last_export_info returns
\* None, and an incremental export is planned like one that is not
\* incremental: it starts at the configured start, 2000-01-01 when there is
\* none, and is refused only for a bad range.
C26_NoStateIsFullExport ==
  (args.incremental /\ initial.state_files[STATE_FILE] = None) =>
    /\ pc = "plan" => get_last_export_info(PROJECT_KEY) = None
    /\ ExpectedStart = ConfiguredStart
    /\ windows # <<>> => strftime(windows[1][1]) = ConfiguredStart
    /\ requests # <<>> => requests[1].createdAfter = ConfiguredStart
    /\ Refused <=> (Done /\ BadRange)
    /\ (pc \notin {"plan", "window"} /\ ~BadRange) => windows # <<>>

C26_Witness ==
  /\ args.incremental
  /\ initial.state_files[STATE_FILE] = None
  /\ args.start_date = None /\ config = None
  /\ Succeeded
  /\ requests[1].createdAfter = <<2000, 1, 1>>
  /\ count(Fetched) = 200

\* session.get has returned 200 with a JSON object that has no issues key or
\* an empty issues array
ZeroPage ==
  /\ response # None
  /\ Head(response).status = 200
  /\ \/ Head(response).body = "nokey"
     \/ Head(response).body = "issues" /\ Head(response).n = 0

\* C27: a 200 reply without the issues key or with an empty issues array
\* leaves the buffer, the count and the file as they are, is recorded as a
\* page received with no issue, and ends the page loop of the window; the
\* export then goes on with the next window and no result is set.
C27_ZeroPage ==
  /\ [][ZeroPage =>
          /\ all_issues' = all_issues
          /\ total_issues_count' = total_issues_count
          /\ files' = files
          /\ result' = None
          /\ pc = "handle" =>
               /\ pc' = "chunk"
               /\ replies' = Append(replies, [ok |-> TRUE, n |-> 0])
          /\ pc = "chunk" => (pc' = "advance" /\ requests' = requests)]_vars
  /\ [][pc = "advance" =>
          /\ pc' = "window"
          /\ current_start_date' = current_end_date
          /\ result' = None]_vars

C27_Witness ==
  /\ Succeeded
  /\ Len(windows) = 2
  /\ replies = <<[ok |-> TRUE, n |-> 0], [ok |-> TRUE, n |-> 200]>>
  /\ Head(result).count = 200

\* C29: an export ends; the cursor of the window loop never passes the end of
\* the range and moves forward at every turn, and an export that went through
\* the whole range has entered as many windows as the range has started
\* periods of 30 days.
C29_WindowLoopEnds ==
  /\ <>Done
  /\ [](pc \notin {"plan", "done"} => current_start_date <= end_date)
  /\ [][pc = "advance" => current_start_date' > current_start_date]_vars
  /\ []((pc \in {"final", "save"} \/ Succeeded) =>
         /\ current_start_date = end_date
         /\ Len(windows) = ((end_date - start_date) + 29) \div 30)

C29_Witness ==
  /\ Succeeded
  /\ end_date - start_date = 45
  /\ Len(windows) = 2
  /\ current_start_date = end_date
  /\ Len(requests) = 2

\* C30 as stated: throughout an export the count is the number of rows the
\* run has written plus the number of issues in the buffer.
C30_CountIsRowsPlusBuffer ==
  (Running \/ Succeeded) =>
    total_issues_count = count(RunRows) + count(all_issues)

\* C30 amended: up to the final write the count is the number of rows the run
\* has written plus the number of issues in the buffer, and the buffer is
\* empty right after the write of a chunk; the final write leaves the buffer
\* as it is, and from then on the count is the number of rows written.
C30_CountIsRowsPlusBufferUntilFinal ==
  /\ [](/\ pc \in {"window", "get", "handle", "chunk", "advance", "final"} =>
             total_issues_count = count(RunRows) + count(all_issues)
        /\ (pc = "save" \/ Succeeded) => total_issues_count = count(RunRows)
        /\ Running => total_issues_count = count(Fetched))
  /\ [][(pc = "chunk" /\ files' # files) => all_issues' = <<>>]_vars
  /\ [][(pc = "final" /\ files' # files) =>
          (all_issues # <<>> /\ all_issues' = all_issues)]_vars

C30_Witness ==
  /\ pc = "save"
  /\ Failed = {}
  /\ write_mode = "a"
  /\ count(all_issues) = 200
  /\ total_issues_count = 5400
  /\ count(RunRows) = 5400

\* ------------------------------------------------------- several projects
Finished == pc = "finished"

\* the entries of the list whose export returned success
SucceededEntries == {j \in 1..Len(exports) : exports[j].status = "success"}
FailedEntries == {j \in 1..Len(exports) : exports[j].status = "failed"}

RECURSIVE SucceededCount(_)
\* the issues of the entries whose export returned success
SucceededCount(es) ==
  IF es = <<>> THEN 0
  ELSE (IF Head(es).status = "success" THEN Head(es).count ELSE 0)
       + SucceededCount(Tail(es))

\* the last entry of the list with the key of entry j
LastOf(j) ==
  CHOOSE k \in j..Len(exports) :
    /\ exports[k].key = exports[j].key
    /\ \A m \in (k + 1)..Len(exports) : exports[m].key # exports[j].key

\* C12: the keys of the list are exported one after the other whatever the
\* results before were; when the loop is over every entry has been exported
\* and every key has its result in the dict, a failed one its failure.
C12_FailureIsolated ==
  /\ Len(exports) <= Len(project_keys)
  /\ \A j \in 1..Len(exports) : exports[j].key = project_keys[j]
  /\ pc \in {"loop", "summary", "finished"} => project_index = Len(exports) + 1
  /\ pc \in {"summary", "finished"} =>
       /\ Len(exports) = Len(project_keys)
       /\ \A j \in 1..Len(exports) :
            \E m \in 1..Len(results) :
              /\ results[m].key = exports[j].key
              /\ results[m].value.status = exports[LastOf(j)].status

C12_Witness ==
  /\ Finished
  /\ Len(exports) = 2
  /\ exports[1].status = "failed"
  /\ exports[2].status = "success" /\ exports[2].count = 700
  /\ exports[2].file # None

\* C13: in the report the successful count is the number of entries whose
\* export succeeded, the failed count the number whose export failed, the two
\* add up to the length of the list, the total is the sum of the counts of the
\* succeeded entries, and of two projects, one unknown to the server (404) and
\* one exported, one is reported successful and one failed.
C13_Summary ==
  Finished =>
    LET t == Head(summary)
    IN /\ t.successful = Cardinality(SucceededEntries)
       /\ t.failed = Cardinality(FailedEntries)
       /\ t.successful + t.failed = Len(project_keys)
       /\ t.total_issues = SucceededCount(exports)
       /\ (/\ project_keys[1] # project_keys[2]
           /\ server[project_keys[1]] = "not_found"
           /\ server[project_keys[2]] = "up"
           /\ ~args.incremental) =>
            (t.successful = 1 /\ t.failed = 1)

\* C19: the output file an entry's export has left is not touched by the
\* export of a later entry with another key.
C19_FilesOwned ==
  \A j \in 1..Len(exports) :
    (/\ exports[j].file # None
     /\ \A k \in (j + 1)..Len(project_keys) : project_keys[k] # exports[j].key) =>
      files[exports[j].csv_file] = exports[j].file

\* --------------------------------------------------- the state file alone
\* call i is a save and call i + 1 a load
SaveThenLoad(i) ==
  /\ store_log[i].op = "save"
  /\ store_log[i + 1].op = "load"

\* calls i, i + 1, i + 2 are a load, a save for another key, a load of the
\* first key again
LoadSaveLoad(i) ==
  /\ store_log[i].op = "load"
  /\ store_log[i + 1].op = "save"
  /\ store_log[i + 2].op = "load"
  /\ store_log[i + 2].key = store_log[i].key
  /\ store_log[i + 1].key # store_log[i].key

\* two keys that are the same but for ':', '/' and '_'
SameButSeparators(k1, k2) ==
  /\ Len(k1) = Len(k2)
  /\ \A j \in 1..Len(k1) : k1[j] = k2[j] \/ {k1[j], k2[j]} \subseteq {":", "/", "_"}

C15_SaveLeavesOtherKeys ==
  \A i \in 1..(Len(store_log) - 2) :
    LoadSaveLoad(i) => store_log[i + 2].state = store_log[i].state

\* C15 amended: a save for one key does not change what a load returns for
\* another key unless the two keys are the same but for ':', '/' and '_';
\* such keys share one state file, and the load then returns the state saved
\* for the other key.
C15_SaveLeavesKeysApart ==
  \A i \in 1..(Len(store_log) - 2) :
    LoadSaveLoad(i) =>
      IF SameButSeparators(store_log[i].key, store_log[i + 1].key)
      THEN /\ store_log[i + 2].state # None
           /\ Head(store_log[i + 2].state).project_key = store_log[i + 1].key
           /\ Head(store_log[i + 2].state).issue_count = store_log[i + 1].issue_count
      ELSE store_log[i + 2].state = store_log[i].state

C15_Witness ==
  /\ Len(store_log) = 3
  /\ LoadSaveLoad(1)
  /\ store_log[1].key = PROJECT_KEY /\ store_log[2].key = KEY_PLAIN
  /\ store_log[1].state # None
  /\ store_log[3].state = store_log[1].state

\* C16: the state file a call addresses is '.last_export_', the key with every
\* ':' and '/' replaced by '_' and every other character kept, and '.json';
\* the name holds no ':' or '/', a key without them is kept as it is, and the
\* calls for one key all address one file.
C16_Sanitization ==
  /\ \A i \in 1..Len(store_log) :
       LET k == store_log[i].key
           f == store_log[i].file
       IN /\ Len(f) = Len(k) + 2
          /\ f[1] = ".last_export_" /\ f[Len(f)] = ".json"
          /\ \A j \in 1..Len(k) :
               f[j + 1] = (IF k[j] = ":" \/ k[j] = "/" THEN "_" ELSE k[j])
          /\ \A j \in 1..Len(f) : f[j] # ":" /\ f[j] # "/"
          /\ (\A j \in 1..Len(k) : k[j] # ":" /\ k[j] # "/") =>
               SubSeq(f, 2, Len(f) - 1) = k
  /\ \A i, j \in 1..Len(store_log) :
       store_log[i].key = store_log[j].key => store_log[i].file = store_log[j].file

C16_Witness ==
  /\ Len(store_log) = 3
  /\ store_log[1].op = "save" /\ store_log[1].key = PROJECT_KEY
  /\ store_log[2].op = "load" /\ store_log[2].key = PROJECT_KEY
  /\ store_log[1].file = STATE_FILE /\ store_log[2].file = STATE_FILE
  /\ store_log[3].key = KEY_PLAIN
  /\ store_log[3].file = <<".last_export_", "l", "i", "b", ".json">>

\* ------------------------------------------------------ flatten_issue alone
\* C17: flatten_issue returns a row for every raw record, whatever the shape
\* of its optional fields, and never raises.
C17_FlattenTotal ==
  flat_row # None =>
    /\ Head(flat_row).error = ""
    /\ Head(flat_row).row # <<>>

\* what the columns of a returned row are to hold for a raw record
ColumnsAsStated(record, row) ==
  /\ DOMAIN row = {"startLine", "endLine", "startOffset", "endOffset", "tags",
                   "transitions", "actions", "comments", "flows", "impacts"}
  /\ \A f \in {"tags", "transitions", "actions"} :
       /\ record[f] = "absent" => row[f] = ""
       /\ record[f] = "strings" => row[f] = "a,b"
  /\ \A f \in {"comments", "flows"} :
       /\ record[f] = "absent" => row[f] = 0
       /\ record[f] \in {"strings", "objects"} => row[f] = 2
  /\ \A f \in {"startLine", "endLine", "startOffset", "endOffset"} :
       /\ record["textRange"] # "object" => row[f] = ""
       /\ record["textRange"] = "object" => row[f] = "n"
  /\ record["impacts"] = "absent" => row["impacts"] = ""
  /\ record["impacts"] = "objects" => row["impacts"] = "q1:s1; q2:s2"

\* C28: for every raw record flatten_issue returns a row with the same
\* columns: tags, transitions and actions joined by commas, comments and
\* flows counted (0 when absent), the four textRange columns empty unless
\* textRange is an object, impacts as quality:severity pairs joined by '; '.
C28_FixedColumns ==
  flat_row # None =>
    /\ Head(flat_row).row # <<>>
    /\ ColumnsAsStated(raw_issue, Head(Head(flat_row).row))

\* C25: the entries of the list are exported in the order of the list, each
\* once: a request is issued and a file written only for the entry the loop is
\* at, into that entry's file, when the exports of all entries before it have
\* returned and none after it has begun, and the loop moves on by one entry.
C25_OneSourceAtATime ==
  /\ [](/\ Len(exports) <= Len(project_keys)
        /\ \A j \in 1..Len(exports) : exports[j].key = project_keys[j]
        /\ Finished => Len(exports) = Len(project_keys))
  /\ [][(Len(requests') > Len(requests) \/ files' # files) =>
          /\ project_index \in 1..Len(project_keys)
          /\ project = project_keys[project_index]
          /\ Len(exports) = project_index - 1
          /\ \A f \in DOMAIN files :
               files'[f] # files[f] =>
                 f = <<"multi_project_export/">>
                       \o [j \in 1..Len(project) |->
                             IF project[j] \in {":", "/"} THEN "_" ELSE project[j]]
                       \o <<"_issues.csv">>]_vars
  /\ [][project_index' # project_index =>
          /\ project_index' = project_index + 1
          /\ Len(exports') = project_index]_vars

C25_Witness ==
  /\ Finished
  /\ project_keys = <<KEY_PLAIN, PROJECT_KEY>>
  /\ exports[1].count = 700 /\ exports[2].count = 200
  /\ exports[1].file # None /\ exports[2].file # None
  /\ files[exports[1].csv_file] = exports[1].file

\* ----------------------------------------------------------- run after run
\* the boundary a disk holds for the project, as a day number
Boundary(disk) == Day(Head(disk[STATE_FILE]).last_export_date)

\* the run saved a watermark: it returned success with rows, in incremental
\* mode, or it left the state file other than it found it
Saved(r) ==
  \/ r.after # r.before
  \/ r.args.incremental /\ r.result.status = "success" /\ r.result.count > 0

\* C31: over a sequence of incremental runs of one project the stored boundary
\* never moves backward: each run starts on the disk the run before left, and
\* a run that saves a watermark where one was stored saves a boundary strictly
\* later than the stored one.
C31_WatermarkAdvances ==
  /\ \A i \in 1..Len(runs) :
       /\ i > 1 => runs[i].before = runs[i - 1].after
       /\ (Saved(runs[i]) /\ runs[i].before[STATE_FILE] # None) =>
            /\ runs[i].after[STATE_FILE] # None
            /\ Boundary(runs[i].after) > Boundary(runs[i].before)
  /\ (state_files # initial.state_files /\ initial.state_files[STATE_FILE] # None) =>
       Boundary(state_files) > Boundary(initial.state_files)

\* three runs on a stored boundary of 2025-03-01, each saving its own end
C31_Witness ==
  /\ Len(runs) = 3
  /\ runs[1].before[STATE_FILE] # None
  /\ Boundary(runs[1].before) = toordinal(2025, 3, 1)
  /\ Boundary(runs[1].after) = toordinal(2025, 3, 5)
  /\ Boundary(runs[2].after) = toordinal(2025, 3, 8)
  /\ Boundary(runs[3].after) = toordinal(2025, 3, 11)

\* the windows of run r in which no request failed
CoveredWindows(r) ==
  {j \in 1..Len(r.windows) :
     \A k \in 1..Len(r.replies) :
       r.requests[k].createdAfter = strftime(r.windows[j][1]) => r.replies[k].ok}

\* the days of the windows run r fetched without a failure
CoveredDays(r) ==
  UNION {r.windows[j][1] .. (r.windows[j][2] - 1) : j \in CoveredWindows(r)}

\* the runs made so far that entered the window loop
Ranged == {i \in 1..Len(runs) : runs[i].windows # <<>>}

\* each run's first window starts at the boundary the disk held when the run
\* began, which is the one saved by the last run that saved one
StartsAtBoundary ==
  \A i \in Ranged :
    runs[i].before[STATE_FILE] # None =>
      runs[i].windows[1][1] = Boundary(runs[i].before)

\* every day from the first run's start up to the boundary the last run left
\* lies in a window that some run fetched
CoveredUpToBoundary ==
  (Ranged # {} /\ runs[Len(runs)].after[STATE_FILE] # None) =>
    LET first == CHOOSE i \in Ranged : \A j \in Ranged : i <= j
    IN \A d \in runs[first].windows[1][1] .. (Boundary(runs[Len(runs)].after) - 1) :
         \E i \in Ranged : d \in CoveredDays(runs[i])

NoGapWithoutFailure ==
  (\A i \in 1..Len(runs) : \A k \in 1..Len(runs[i].replies) : runs[i].replies[k].ok)
    => CoveredUpToBoundary

\* ------------------------------------------------ the two copies side by side
MAIN_CSV_FILE == <<"sonarqube", "_issues.csv">>

\* the module-level path has ended (exit or end of script)
MainEnded == function_run # None /\ pc = "main_exit"

\* C33: on the same arguments, configuration, stored state and server replies
\* the module-level single-project path and export_single_project agree: the
\* requests of the one are, one by one, the requests of the other; at the end
\* both have issued the same requests and walked the same windows, both output
\* files hold the same header and rows in the same order, and the state file
\* is the same (saved by both with the same content, or by neither); the one
\* exits with code 1 exactly where the other returns failed.
C33_CopiesAgree ==
  function_run # None =>
    LET f == Head(function_run)
    IN /\ IsPrefix(requests, f.requests)
       /\ MainEnded =>
            /\ requests = f.requests
            /\ windows = f.windows
            /\ files[MAIN_CSV_FILE] = files[CSV_FILE]
            /\ state_files = f.state_files
            /\ (Head(result).code = 1) <=> (f.result.status = "failed")

\* an incremental run over two windows that writes a chunk and the rest and
\* saves the state, made by both copies
C33_Witness ==
  /\ MainEnded
  /\ args.incremental
  /\ Len(windows) = 2
  /\ total_issues_count = 5200
  /\ files[MAIN_CSV_FILE] # None
  /\ count(Head(files[MAIN_CSV_FILE]).rows) = 5200
  /\ state_files # initial.state_files
====
